---- MODULE Spec2Model ----
(***************************************************************************)
(* Model of src/lib/rgbkeypad.py: the RGBKeyPad object with its 16 Key     *)
(* objects, the per-key press / release / hold state machine, the         *)
(* mode-scoped handler tables, the LED operations of a key, the LED sleep  *)
(* coordinator and the colour conversion hsv_to_rgb.                       *)
(*                                                                         *)
(* Time.  time.monotonic() is the variable `now`, counted in ticks of      *)
(* 0.125 s, so that debounce = 0.125 s is 1 tick, hold_time = 0.75 s is 6  *)
(* ticks and led_sleep_time = 1 s is 8 ticks.  Two calls made without a    *)
(* Tick between them are calls less than one tick apart.  Within one call  *)
(* of update the clock is read as one value.  time_since_last_press, of    *)
(* the key and of the keypad, is written and read within one call only;    *)
(* it is the value t - time_of_last_press of the call, not a state field.  *)
(*                                                                         *)
(* Python values.  None is the string "None" (the empty tuple for          *)
(* last_led_states, a list once set, and for the rgb argument of           *)
(* toggle_led); a handler table is a                                       *)
(* function from the labels it holds to "None" or a callable: "fn", a     *)
(* handler that leaves the key alone, or "to_alt", a handler that sets    *)
(* key.board_state = 'alt'; a colour is a triple; last_state is "None", "False" or "True"; an         *)
(* exception leaving a call is the value err of the call's result, "ok"    *)
(* when the call returned.                                                 *)
(***************************************************************************)
EXTENDS Integers, Sequences, FiniteSets, TLC

\* ---------------------------------------------------------------- constants
NUM_KEYS == 16
ENABLE_SLEEP == TRUE
\* Key.debounce = 0.125 s, in ticks
DEBOUNCE == 1
\* Key.hold_time = 0.75 s, in ticks
HOLD_TIME == 6
\* RGBKeyPad.led_sleep_time = 1 s, in ticks
LED_SLEEP_TIME == 8

\* ------------------------------------------------------------------- bounds
\* the clock stops advancing here when the keypad is driven as a whole
MaxTime == 4
\* the same when one key is driven alone
MaxKeyTime == 7
\* the led_sleep_time the application sets in place of the default, in ticks
ShortSleepTime == 1
\* the clock stops advancing here when the key's thresholds are configured
MaxCfgTime == 2
\* the episode record counts the invocations of a handler up to here
MaxCount == 2
\* h, s and v are taken at the multiples of 1 / HsvSteps in 0 .. 1
HsvSteps == 8

Keys == 0 .. (NUM_KEYS - 1)
\* the key the application drives by itself (input, handlers, mode, LED)
ActiveKeys == {3}
Modes == {"default", "alt"}
\* the callables the application registers
Handlers == {"fn", "to_alt"}
\* the values the application gives key.hold_time and key.debounce, in ticks
HoldTimes == {HOLD_TIME, 0, -1}
Debounces == {DEBOUNCE, 0}
Black == <<0, 0, 0>>
Red == <<255, 0, 0>>
Blue == <<0, 0, 255>>
\* the colours the application passes to set_all, and to set_led of one key
Palette == {Black, Red}
KeyPalette == {Black, Red, Blue}
\* the arguments the application passes to led_state
LedStates == {0, 1, 2}
\* the keys whose LEDs the application drives with set_all and clear_all only
FrameKeys == Keys \ ActiveKeys
NoFrame ==
    [ woke |-> FALSE,
      lit  |-> [k \in FrameKeys |-> FALSE],
      rgb  |-> [k \in FrameKeys |-> Black],
      kept |-> TRUE ]
\* the read of the two bytes raised: no bytes
ReadFailed == << >>
\* the arguments of hsv_to_rgb: n stands for n / HsvSteps
HsvGrid == 0 .. HsvSteps
\* the two bytes the expander returns: all keys released, keys 3 and 15 down
ReadBytes == {<<255, 255>>, <<247, 127>>}

VARIABLES
    now,      \* time.monotonic()
    keypad,   \* the RGBKeyPad object, its keys and its pixels
    hist,     \* per driven key: the record of its current press episode
    slept,    \* the last cycle that moved the keypad to Sleeping: the LEDs
              \* before it, the LEDs and the snapshot after it
    frame,    \* the keys the application drives with set_all and clear_all
              \* only, over one sleep episode: their lit flags and remembered
              \* colours when the keypad fell asleep, and at the wake whether
              \* they are the same again
    failed,   \* whether an update whose read failed has been made, and
              \* whether each one left the keypad as it was
    hsv       \* one call of hsv_to_rgb: its arguments and its result

vars == <<now, keypad, hist, slept, frame, failed, hsv>>

\* ------------------------------------------------------------ Key.__init__
NewKey(t) ==
    [ current_state         |-> 0,
      board_state           |-> "default",
      key_state             |-> 0,
      pressed               |-> 0,
      last_state            |-> "None",
      time_of_last_press    |-> t,
      time_held_for         |-> 0,
      held                  |-> FALSE,
      hold_time             |-> HOLD_TIME,
      rgb                   |-> Black,
      lit                   |-> FALSE,
      press_functions       |-> [m \in {"default"} |-> "None"],
      release_functions     |-> [m \in {"default"} |-> "None"],
      hold_functions        |-> [m \in {"default"} |-> "None"],
      press_func_fired      |-> FALSE,
      hold_func_fired       |-> FALSE,
      debounce              |-> DEBOUNCE,
      key_locked            |-> FALSE ]

\* ------------------------------------------------------ RGBKeyPad.__init__
NewKeyPad(t) ==
    [ states                |-> [i \in Keys |-> 0],
      time_of_last_press    |-> t,
      last_led_states       |-> << >>,
      led_sleep_enabled     |-> TRUE,
      led_sleep_time        |-> LED_SLEEP_TIME,
      sleeping              |-> FALSE,
      was_asleep            |-> FALSE,
      keys                  |-> [i \in Keys |-> NewKey(t)],
      pixels                |-> [i \in Keys |-> Black] ]

\* --------------------------------------------------------------- Key.update
\* table[mode](key): the outcome of looking the handler up and calling it
Lookup(table, mode) ==
    IF mode \notin DOMAIN table THEN "KeyError"
    ELSE IF table[mode] = "None" THEN "TypeError"
    ELSE "ok"

\* the lock left out
KeyLockedNever(time_since, debounce) == FALSE

\* the lock still held when exactly debounce has passed
KeyLockedAtDebounce(time_since, debounce) == time_since <= debounce

KeyLocked(time_since, debounce) == time_since < debounce

UpdateBegin(key, t) ==
    [ key |-> [key EXCEPT
                 !.key_locked = KeyLocked(t - key.time_of_last_press, key.debounce),
                 !.key_state = key.current_state,
                 !.pressed = key.current_state],
      err |-> "ok",
      calls |-> <<>>,
      lookups |-> <<>>,
      update_time |-> t ]

\* handler(self): what the callable the application registered does to the key
RunHandler(handler, key) ==
    IF handler = "to_alt" THEN [key EXCEPT !.board_state = "alt"] ELSE key

\* table[self.board_state](self): the label looked up is the key's mode at
\* the time of the call
Dispatch(R, table, kind) ==
    LET mode == R.key.board_state
        e    == Lookup(table, mode)
        R1   == [R EXCEPT !.lookups = Append(@, mode)]
    IN  IF e # "ok" THEN [R1 EXCEPT !.err = e]
        ELSE [R1 EXCEPT !.calls = Append(@, kind),
                        !.key = RunHandler(table[mode], @)]

\* the press_func_fired guard left out
PressDueUnguarded(key) ==
    key.pressed = 1 /\ ~key.key_locked

PressDue(key) ==
    key.pressed = 1 /\ ~key.press_func_fired /\ ~key.key_locked

PressStep(R) ==
    IF R.err # "ok" \/ ~PressDue(R.key) THEN R
    ELSE LET R1 == Dispatch(R, R.key.press_functions, "press") IN
         IF R1.err # "ok" THEN R1
         ELSE [R1 EXCEPT !.key.press_func_fired = TRUE]

ReleaseDue(key) ==
    key.pressed = 0 /\ key.last_state = "True"

ReleaseStep(R) ==
    IF R.err # "ok" \/ ~ReleaseDue(R.key) THEN R
    ELSE LET R1 == Dispatch(R, R.key.release_functions, "release") IN
         IF R1.err # "ok" THEN R1
         ELSE [R1 EXCEPT !.key.last_state = "False",
                         !.key.press_func_fired = FALSE]

TrackStep(R) ==
    IF R.err # "ok" THEN R
    ELSE IF R.key.pressed = 0
         THEN [R EXCEPT !.key.time_held_for = 0,
                        !.key.last_state = "False"]
    ELSE IF R.key.last_state # "True"
         THEN [R EXCEPT !.key.time_of_last_press = R.update_time,
                        !.key.last_state = "True"]
    ELSE [R EXCEPT !.key.time_held_for = R.update_time - R.key.time_of_last_press,
                   !.key.last_state = "True"]

HoldDue(key) == key.time_held_for > key.hold_time

HoldStep(R) ==
    IF R.err # "ok" THEN R
    ELSE IF HoldDue(R.key)
         THEN LET R1 == [R EXCEPT !.key.held = TRUE] IN
              IF R1.key.hold_func_fired THEN R1
              ELSE LET R2 == Dispatch(R1, R1.key.hold_functions, "hold") IN
                   IF R2.err # "ok" THEN R2
                   ELSE [R2 EXCEPT !.key.hold_func_fired = TRUE]
    ELSE [R EXCEPT !.key.held = FALSE,
                   !.key.hold_func_fired = FALSE]

KeyUpdate(key, t) ==
    HoldStep(TrackStep(ReleaseStep(PressStep(UpdateBegin(key, t)))))


\* the episode record of one key, kept beside the program state:
\*   ep_start   when its current press episode began (-1 before the first)
\*   ep_over    some pressed cycle of it came more than hold_time after that
\*   ep_press   how often the press handler was invoked in it (counted up to
\*              MaxCount, as is ep_hold)
\*   ep_hold    how often the hold handler was invoked in it
\*   ep_preg    a press handler was registered for the key's mode on every
\*              cycle of it
\*   ep_hreg    the same for the hold handler
\*   ep_close   it began less than debounce after the episode before began
\*   prev_press how often the press handler was invoked in the episode before
\*   raised     an update of the key has raised
\*   in_lock    the press handler was invoked on a cycle less than debounce
\*              after the key's time_of_last_press
\*   first      the first updates of the key after its construction: see
\*              ObserveFirst
NewFirst ==
    [ cycles |-> 0, at |-> 0, reg |-> TRUE, late |-> FALSE,
      press1 |-> 0, press2 |-> 0 ]

\* the key's first updates no longer are: released, pressed, pressed
PastFirst == [NewFirst EXCEPT !.cycles = 4]

NewHist ==
    [ ep_start |-> -1, ep_over |-> FALSE, ep_press |-> 0, ep_hold |-> 0,
      ep_preg |-> TRUE, ep_hreg |-> TRUE, ep_close |-> FALSE,
      prev_press |-> 0, raised |-> FALSE, in_lock |-> FALSE,
      first |-> NewFirst ]

Capped(n) == IF n > MaxCount THEN MaxCount ELSE n

Count(calls, kind) == Cardinality({i \in DOMAIN calls : calls[i] = kind})

Registered(key) ==
    [ press   |-> Lookup(key.press_functions, key.board_state) = "ok",
      release |-> Lookup(key.release_functions, key.board_state) = "ok",
      hold    |-> Lookup(key.hold_functions, key.board_state) = "ok" ]

\* the record of the first updates of a key: while they are a cycle that
\* reads released and then cycles that read pressed, all less than one tick
\* apart, cycles counts them (up to 3);
\*   at      the tick they are made in
\*   reg     a press handler was registered for the key's mode on each
\*           pressed cycle
\*   late    the first pressed cycle came debounce or more after the key's
\*           construction
\*   press1  how often the press handler was invoked on the first pressed cycle
\*   press2  the same on the second
ObserveFirst(f, before, R, t) ==
    LET r == R.key.key_state IN
    IF f.cycles = 0 /\ r = 0 /\ R.err = "ok"
    THEN [f EXCEPT !.cycles = 1, !.at = t]
    ELSE IF f.cycles = 1 /\ r = 1 /\ t = f.at
    THEN [f EXCEPT !.cycles = 2,
                   !.reg = Registered(before).press,
                   !.late = t - before.time_of_last_press >= before.debounce,
                   !.press1 = Count(R.calls, "press")]
    ELSE IF f.cycles = 2 /\ r = 1 /\ t = f.at
    THEN [f EXCEPT !.cycles = 3,
                   !.reg = @ /\ Registered(before).press,
                   !.press2 = Count(R.calls, "press")]
    ELSE PastFirst

\* h after an update of the key that was `before` and gave the result R at t
Observe(h, before, R, t) ==
    LET r    == R.key.key_state
        prev == before.key_state
        h1   == [h EXCEPT
                   !.first = ObserveFirst(@, before, R, t),
                   !.raised = @ \/ R.err # "ok",
                   !.in_lock = @ \/ ( /\ Count(R.calls, "press") > 0
                                      /\ t - before.time_of_last_press
                                           < before.debounce )]
    IN  IF r = 1 /\ prev = 0
        THEN [h1 EXCEPT !.prev_press = h.ep_press,
                        !.ep_close = h.ep_start >= 0
                                     /\ t - h.ep_start < before.debounce,
                        !.ep_start = t,
                        !.ep_over = FALSE,
                        !.ep_press = Count(R.calls, "press"),
                        !.ep_hold = Count(R.calls, "hold"),
                        !.ep_preg = Registered(before).press,
                        !.ep_hreg = Registered(before).hold]
        ELSE IF r = 1
        THEN [h1 EXCEPT !.ep_over = @ \/ t - h.ep_start > before.hold_time,
                        !.ep_press = Capped(@ + Count(R.calls, "press")),
                        !.ep_hold = Capped(@ + Count(R.calls, "hold")),
                        !.ep_preg = @ /\ Registered(before).press,
                        !.ep_hreg = @ /\ Registered(before).hold]
        ELSE IF prev = 1
        THEN [h1 EXCEPT !.ep_hold = Capped(@ + Count(R.calls, "hold"))]
        ELSE h1

\* -------------------------------------------------------------- Key LED ops
\* the test for black left out: the colour is stored whatever it is
KeySetLedStoresBlack(self, k, c) ==
    [self EXCEPT !.keys[k].lit = (c # Black),
                 !.keys[k].rgb = c,
                 !.pixels[k] = c]

KeySetLed(self, k, c) ==
    [self EXCEPT !.keys[k].lit = (c # Black),
                 !.keys[k].rgb = IF c = Black THEN @ ELSE c,
                 !.pixels[k] = c]

\* the colour written to the LED without going through set_led
KeyLedOnRaw(self, k) == [self EXCEPT !.pixels[k] = self.keys[k].rgb]

KeyLedOn(self, k) == KeySetLed(self, k, self.keys[k].rgb)

\* the LED turned off and the remembered colour lost
KeyLedOffForgets(self, k) ==
    [KeySetLed(self, k, Black) EXCEPT !.keys[k].rgb = Black]

KeyLedOff(self, k) == KeySetLed(self, k, Black)

\* led_state(state): int(state) is 0 or 1, or the call does nothing
KeyLedState(self, k, state) ==
    IF state = 0 THEN KeyLedOff(self, k)
    ELSE IF state = 1 THEN KeyLedOn(self, k)
    ELSE self

\* the toggle that only ever turns the LED off
KeyToggleLedOff(self, k, rgb) ==
    KeyLedOff(IF rgb # << >> THEN [self EXCEPT !.keys[k].rgb = rgb] ELSE self, k)

\* toggle_led(rgb): rgb is a colour, or << >> for the default None
KeyToggleLed(self, k, rgb) ==
    LET s1 == IF rgb # << >> THEN [self EXCEPT !.keys[k].rgb = rgb] ELSE self
    IN  IF s1.keys[k].lit THEN KeyLedOff(s1, k) ELSE KeyLedOn(s1, k)

\* ------------------------------------------------------------ RGBKeyPad ops
RECURSIVE ForKeysSetLed(_, _, _)
\* for _key in self.keys[i:]: _key.set_led(*colour[_key.number])
ForKeysSetLed(self, i, colour) ==
    IF i = NUM_KEYS THEN self
    ELSE ForKeysSetLed(KeySetLed(self, i, colour[i]), i + 1, colour)

RECURSIVE ForKeysLedOff(_, _)
\* for _key in self.keys[i:]: _key.led_off()
ForKeysLedOff(self, i) ==
    IF i = NUM_KEYS THEN self
    ELSE ForKeysLedOff(KeyLedOff(self, i), i + 1)

set_all(self, c) ==
    IF ~self.sleeping
    THEN ForKeysSetLed(self, 0, [k \in Keys |-> c])
    ELSE ForKeysLedOff(self, 0)

clear_all(self) == ForKeysLedOff(self, 0)

set_led(self, number, c) == KeySetLed(self, number, c)

get_states(self) == [k \in Keys |-> self.keys[k].key_state]

any_pressed(self) == \E k \in Keys : get_states(self)[k] = 1

\* the lit test left out
SnapshotRgb(self) == [k \in Keys |-> self.keys[k].rgb]

\* [k.rgb if k.lit else [0, 0, 0] for k in self.keys]
Snapshot(self) ==
    [k \in Keys |-> IF self.keys[k].lit THEN self.keys[k].rgb ELSE Black]

WakeCheck(self, t) ==
    IF any_pressed(self)
    THEN [self EXCEPT !.time_of_last_press = t, !.sleeping = FALSE]
    ELSE self

\* the test that sleep is not engaged left out
SleepDueWhileAsleep(self, time_since_last_press) ==
    /\ self.led_sleep_enabled
    /\ time_since_last_press > self.led_sleep_time

SleepDue(self, time_since_last_press) ==
    /\ self.led_sleep_enabled
    /\ ~self.sleeping
    /\ time_since_last_press > self.led_sleep_time

SleepCheck(self, time_since_last_press) ==
    IF SleepDue(self, time_since_last_press)
    THEN [set_all([self EXCEPT !.sleeping = TRUE,
                               !.last_led_states = Snapshot(self)], Black)
            EXCEPT !.was_asleep = TRUE]
    ELSE self

RestoreDue(self) == ~self.sleeping /\ self.was_asleep

RestoreCheck(self) ==
    IF RestoreDue(self)
    THEN [ForKeysSetLed(self, 0, self.last_led_states)
            EXCEPT !.was_asleep = FALSE]
    ELSE self

sleep_handler(self, t) ==
    LET s1 == WakeCheck(self, t)
    IN  RestoreCheck(SleepCheck(s1, t - s1.time_of_last_press))

\* what one call of sleep_handler does: whether it takes the snapshot, and
\* whether it applies the snapshot to the LEDs
SnapshotTaken(self, t) ==
    LET s1 == WakeCheck(self, t)
    IN  SleepDue(s1, t - s1.time_of_last_press)

RestoreDone(self, t) ==
    LET s1 == WakeCheck(self, t)
    IN  RestoreDue(SleepCheck(s1, t - s1.time_of_last_press))

\* bit i of result[0] | result[1] << 8
AllStates(result) == result[1] + result[2] * 256

Bit(i, n) == (n \div (2 ^ i)) % 2

DecodeStates(result) ==
    [i \in Keys |-> IF Bit(i, AllStates(result)) = 0 THEN 1 ELSE 0]

RECURSIVE UpdateKeys(_, _, _)
\* for _key in self.keys: _key.update() -- an exception ends the loop
UpdateKeys(S, i, t) ==
    IF i = NUM_KEYS \/ S.err # "ok" THEN S
    ELSE LET R == KeyUpdate(S.self.keys[i], t) IN
         UpdateKeys([ self |-> [S.self EXCEPT !.keys[i] = R.key],
                      err  |-> R.err,
                      calls |-> S.calls \o [j \in DOMAIN R.calls |-> <<i, R.calls[j]>>] ],
                    i + 1, t)

\* RGBKeyPad.update with the two bytes read: the keypad after the call, the
\* outcome and the handlers invoked
AfterKeys(self, result, t) ==
    LET s1 == [self EXCEPT !.states = DecodeStates(result)]
    IN  UpdateKeys([self |-> s1, err |-> "ok", calls |-> <<>>], 0, t)

\* the failure of the read taken for a mask with no key down
ReadFailureSwallowed(self, t) ==
    LET S == UpdateKeys([self |-> [self EXCEPT !.states = [i \in Keys |-> 0]],
                         err |-> "ok", calls |-> <<>>], 0, t)
    IN  IF S.err = "ok" /\ ENABLE_SLEEP
        THEN [S EXCEPT !.self = sleep_handler(S.self, t)]
        ELSE S

\* device.write or device.readinto raises inside the with block: the
\* exception leaves update before states is assigned
ReadFailure(self, t) ==
    [self |-> self, err |-> "OSError", calls |-> <<>>]

PadUpdate(self, result, t) ==
    LET S == AfterKeys(self, result, t)
    IN  IF result = ReadFailed THEN ReadFailure(self, t)
        ELSE IF S.err = "ok" /\ ENABLE_SLEEP
        THEN [S EXCEPT !.self = sleep_handler(S.self, t)]
        ELSE S

\* --------------------------------------------------------------- hsv_to_rgb
\* h, s, v are the numerators of h, s, v over HsvSteps; i, f, p, q, t are
\* computed exactly: f over HsvSteps, v, p, q, t over HsvSteps ^ 3
HsvI(h) == (h * 6) \div HsvSteps

HsvF(h) == h * 6 - HsvI(h) * HsvSteps

HsvV(v) == v * HsvSteps * HsvSteps

HsvP(s, v) == v * (HsvSteps - s) * HsvSteps

\* s left out of q
HsvQWithoutS(h, s, v) == v * (HsvSteps * HsvSteps - HsvSteps * HsvF(h))

HsvQ(h, s, v) == v * (HsvSteps * HsvSteps - s * HsvF(h))

HsvT(h, s, v) == v * (HsvSteps * HsvSteps - s * (HsvSteps - HsvF(h)))

\* int(c * 255), c over HsvSteps ^ 3 and not negative
Channel(c) == (c * 255) \div (HsvSteps * HsvSteps * HsvSteps)

hsv_to_rgb(h, s, v) ==
    LET i   == HsvI(h) % 6
        rgb == CASE i = 0 -> <<HsvV(v), HsvT(h, s, v), HsvP(s, v)>>
                 [] i = 1 -> <<HsvQ(h, s, v), HsvV(v), HsvP(s, v)>>
                 [] i = 2 -> <<HsvP(s, v), HsvV(v), HsvT(h, s, v)>>
                 [] i = 3 -> <<HsvP(s, v), HsvQ(h, s, v), HsvV(v)>>
                 [] i = 4 -> <<HsvT(h, s, v), HsvP(s, v), HsvV(v)>>
                 [] i = 5 -> <<HsvV(v), HsvP(s, v), HsvQ(h, s, v)>>
    IN  <<Channel(rgb[1]), Channel(rgb[2]), Channel(rgb[3])>>

\* ------------------------------------------------------------------ actions
InitPad ==
    /\ now = 0
    /\ keypad = NewKeyPad(0)
    /\ hist = [k \in ActiveKeys |-> NewHist]
    /\ slept = [ happened |-> FALSE,
                 before   |-> [k \in Keys |-> Black],
                 after    |-> [k \in Keys |-> Black],
                 snapshot |-> [k \in Keys |-> Black] ]
    /\ frame = NoFrame
    /\ failed = [happened |-> FALSE, intact |-> TRUE]

Init ==
    /\ InitPad
    /\ hsv = [h |-> 0, s |-> 0, v |-> 0, rgb |-> << >>]

\* the arguments of the call are drawn from the grid
InitHsv ==
    /\ InitPad
    /\ hsv \in [h : HsvGrid, s : HsvGrid, v : HsvGrid, rgb : {<< >>}]

\* time passes between two calls of the application
Tick(bound) ==
    /\ now < bound
    /\ now' = now + 1
    /\ UNCHANGED <<keypad, hist, slept, frame, failed, hsv>>

\* the key's input: Key.current_state, set from the constructor's key_state
\* argument and read by Key.update; nothing in RGBKeyPad writes it afterwards
SetCurrentState(k, b) ==
    /\ keypad.keys[k].current_state # b
    /\ keypad' = [keypad EXCEPT !.keys[k].current_state = b]
    /\ UNCHANGED <<now, hist, slept, frame, failed, hsv>>

\* the application points a key at another mode label
SetBoardState(k, m) ==
    /\ keypad.keys[k].board_state # m
    /\ keypad' = [keypad EXCEPT !.keys[k].board_state = m]
    /\ UNCHANGED <<now, hist, slept, frame, failed, hsv>>

Attach(table, state, handler) ==
    [m \in DOMAIN table \cup {state} |->
        IF m = state THEN handler ELSE table[m]]

on_press(k, state, handler) ==
    /\ keypad' = [keypad EXCEPT
                    !.keys[k].press_functions = Attach(@, state, handler)]
    /\ UNCHANGED <<now, hist, slept, frame, failed, hsv>>

on_release(k, state, handler) ==
    /\ keypad' = [keypad EXCEPT
                    !.keys[k].release_functions = Attach(@, state, handler)]
    /\ UNCHANGED <<now, hist, slept, frame, failed, hsv>>

on_hold(k, state, handler) ==
    /\ keypad' = [keypad EXCEPT
                    !.keys[k].hold_functions = Attach(@, state, handler)]
    /\ UNCHANGED <<now, hist, slept, frame, failed, hsv>>

\* keypad.keys[k].update() called on one key
KeyUpdateCall(k) ==
    LET R == KeyUpdate(keypad.keys[k], now) IN
    /\ keypad' = [keypad EXCEPT !.keys[k] = R.key]
    /\ hist' = [hist EXCEPT ![k] = Observe(@, keypad.keys[k], R, now)]
    /\ UNCHANGED <<now, slept, frame, failed, hsv>>

\* keypad.update() with the two bytes the expander returns
Update(result) ==
    /\ keypad' = PadUpdate(keypad, result, now).self
    /\ frame' = IF ~keypad.sleeping /\ keypad'.sleeping
                THEN [ woke |-> FALSE,
                       lit  |-> [k \in FrameKeys |-> keypad.keys[k].lit],
                       rgb  |-> [k \in FrameKeys |-> keypad.keys[k].rgb],
                       kept |-> TRUE ]
                ELSE IF keypad.sleeping /\ ~keypad'.sleeping
                THEN [ NoFrame EXCEPT
                         !.woke = TRUE,
                         !.kept = \A k \in FrameKeys :
                                     /\ keypad'.keys[k].lit = frame.lit[k]
                                     /\ keypad'.keys[k].rgb = frame.rgb[k] ]
                ELSE frame
    /\ failed' = IF result = ReadFailed
                 THEN [ happened |-> TRUE,
                        intact   |-> /\ failed.intact
                                     /\ PadUpdate(keypad, result, now) =
                                          [ self  |-> keypad,
                                            err   |-> "OSError",
                                            calls |-> << >> ] ]
                 ELSE failed
    /\ slept' = IF ~keypad.sleeping /\ keypad'.sleeping
                THEN [ happened |-> TRUE,
                       before   |-> keypad.pixels,
                       after    |-> keypad'.pixels,
                       snapshot |-> keypad'.last_led_states ]
                ELSE slept
    /\ UNCHANGED <<now, hist, hsv>>

\* the application sets key.hold_time
SetHoldTime(k, h) ==
    /\ keypad.keys[k].hold_time # h
    /\ keypad' = [keypad EXCEPT !.keys[k].hold_time = h]
    /\ UNCHANGED <<now, hist, slept, frame, failed, hsv>>

\* the application sets key.debounce
SetDebounce(k, d) ==
    /\ keypad.keys[k].debounce # d
    /\ keypad' = [keypad EXCEPT !.keys[k].debounce = d]
    /\ UNCHANGED <<now, hist, slept, frame, failed, hsv>>

\* the application sets keypad.led_sleep_time
SetSleepTime(T) ==
    /\ keypad.led_sleep_time # T
    /\ keypad' = [keypad EXCEPT !.led_sleep_time = T]
    /\ UNCHANGED <<now, hist, slept, frame, failed, hsv>>

SetLed(k, c) ==
    /\ keypad' = set_led(keypad, k, c)
    /\ UNCHANGED <<now, hist, slept, frame, failed, hsv>>

SetAll(c) ==
    /\ keypad' = set_all(keypad, c)
    /\ UNCHANGED <<now, hist, slept, frame, failed, hsv>>

ClearAll ==
    /\ keypad' = clear_all(keypad)
    /\ UNCHANGED <<now, hist, slept, frame, failed, hsv>>

LedOn(k) ==
    /\ keypad' = KeyLedOn(keypad, k)
    /\ UNCHANGED <<now, hist, slept, frame, failed, hsv>>

LedOff(k) ==
    /\ keypad' = KeyLedOff(keypad, k)
    /\ UNCHANGED <<now, hist, slept, frame, failed, hsv>>

LedState(k, state) ==
    /\ keypad' = KeyLedState(keypad, k, state)
    /\ UNCHANGED <<now, hist, slept, frame, failed, hsv>>

ToggleLed(k, rgb) ==
    /\ keypad' = KeyToggleLed(keypad, k, rgb)
    /\ UNCHANGED <<now, hist, slept, frame, failed, hsv>>

\* rgb = hsv_to_rgb(h, s, v)
Convert ==
    /\ hsv.rgb = << >>
    /\ hsv' = [hsv EXCEPT !.rgb = hsv_to_rgb(hsv.h, hsv.s, hsv.v)]
    /\ UNCHANGED <<now, keypad, hist, slept, frame, failed>>

\* the whole keypad, driven through RGBKeyPad
Next ==
    \/ Tick(MaxTime)
    \/ \E k \in ActiveKeys, b \in {0, 1} : SetCurrentState(k, b)
    \/ \E k \in ActiveKeys : on_press(k, "default", "fn")
    \/ \E k \in ActiveKeys : on_release(k, "default", "fn")
    \/ SetSleepTime(ShortSleepTime)
    \/ \E result \in ReadBytes : Update(result)
    \/ \E k \in ActiveKeys, c \in KeyPalette : SetLed(k, c)
    \/ \E c \in Palette : SetAll(c)

Spec == Init /\ [][Next]_vars

\* one key driven through Key.update, with its handler tables and its mode
NextKey ==
    \/ Tick(MaxKeyTime)
    \/ \E k \in ActiveKeys, b \in {0, 1} : SetCurrentState(k, b)
    \/ \E k \in ActiveKeys, m \in Modes : SetBoardState(k, m)
    \/ \E k \in ActiveKeys : on_press(k, "default", "fn")
    \/ \E k \in ActiveKeys : on_release(k, "default", "fn")
    \/ \E k \in ActiveKeys : on_hold(k, "default", "fn")
    \/ \E k \in ActiveKeys : KeyUpdateCall(k)

SpecKey == Init /\ [][NextKey]_vars

\* the LEDs, driven through the keypad and through the keys, with the sleep
\* coordinator running
NextLed ==
    \/ Tick(MaxTime)
    \/ \E k \in ActiveKeys, b \in {0, 1} : SetCurrentState(k, b)
    \/ \E k \in ActiveKeys : on_press(k, "default", "fn")
    \/ SetSleepTime(ShortSleepTime)
    \/ \E result \in ReadBytes : Update(result)
    \/ \E k \in ActiveKeys, c \in KeyPalette : SetLed(k, c)
    \/ \E c \in Palette : SetAll(c)
    \/ ClearAll
    \/ \E k \in ActiveKeys : LedOn(k)
    \/ \E k \in ActiveKeys : LedOff(k)
    \/ \E k \in ActiveKeys, state \in LedStates : LedState(k, state)
    \/ \E k \in ActiveKeys, rgb \in {<< >>} \cup KeyPalette : ToggleLed(k, rgb)

SpecLed == Init /\ [][NextLed]_vars

\* the keypad with a read of the expander that may fail
NextIO ==
    \/ Tick(MaxTime)
    \/ \E k \in ActiveKeys, b \in {0, 1} : SetCurrentState(k, b)
    \/ \E k \in ActiveKeys : on_press(k, "default", "fn")
    \/ SetSleepTime(ShortSleepTime)
    \/ \E result \in ReadBytes \cup {ReadFailed} : Update(result)
    \/ \E k \in ActiveKeys, c \in KeyPalette : SetLed(k, c)

SpecIO == Init /\ [][NextIO]_vars

NextHsv == Convert

SpecHsv == InitHsv /\ [][NextHsv]_vars

\* no update of the key has been made yet: the application is setting it up
Unused(k) == keypad.keys[k].last_state = "None" /\ ~hist[k].raised

\* one key with the thresholds the application configures and with handlers
\* that change the key's mode, all set before the key's first update
NextCfg ==
    \/ Tick(MaxCfgTime)
    \/ \E k \in ActiveKeys, b \in {0, 1} : SetCurrentState(k, b)
    \/ \E k \in ActiveKeys, h \in HoldTimes : Unused(k) /\ SetHoldTime(k, h)
    \/ \E k \in ActiveKeys, d \in Debounces : Unused(k) /\ SetDebounce(k, d)
    \/ \E k \in ActiveKeys, h \in Handlers :
          Unused(k) /\ on_press(k, "default", h)
    \/ \E k \in ActiveKeys : Unused(k) /\ on_release(k, "default", "fn")
    \/ \E k \in ActiveKeys, m \in Modes : Unused(k) /\ on_hold(k, m, "fn")
    \/ \E k \in ActiveKeys : KeyUpdateCall(k)

SpecCfg == Init /\ [][NextCfg]_vars

\* ------------------------------------------------------------------- claims
AllBlack(pixels) == \A k \in Keys : pixels[k] = Black

\* a key reads pressed in the cycle that starts in this state
ReadsPressed(k) == keypad.keys[k].current_state = 1

\* C1: after every RGBKeyPad.update that returns, for every i in 0..15, key i
\* reads pressed (key_state, as get_states reports it) exactly when bit i of
\* the mask read in that cycle is 0.
C1_KeyStateFollowsMask ==
    [][\A result \in ReadBytes :
          Update(result) /\ PadUpdate(keypad, result, now).err = "ok"
          => \A i \in Keys :
                (get_states(keypad')[i] = 1) <=> (Bit(i, AllStates(result)) = 0)
      ]_vars

\* C2 as stated, on the runs in which no update of the key raised: with a
\* press handler registered for the key's mode on every cycle of a press
\* episode, the press handler is invoked never more than once in the episode,
\* and exactly once by the time the episode has ended.
C2_ExactlyOncePerEpisode ==
    \A k \in ActiveKeys :
        (hist[k].ep_start >= 0 /\ hist[k].ep_preg /\ ~hist[k].raised)
        => /\ hist[k].ep_press <= 1
           /\ keypad.keys[k].key_state = 0 => hist[k].ep_press = 1

\* C2 amended: the press handler is invoked at most once in each press
\* episode, however many cycles the episode lasts.
C2_AtMostOncePerEpisode ==
    \A k \in ActiveKeys : hist[k].ep_press <= 1

\* an episode that has lasted longer than hold_time, with one invocation
C2_Witness ==
    \E k \in ActiveKeys :
        /\ keypad.keys[k].key_state = 1
        /\ hist[k].ep_over
        /\ hist[k].ep_press = 1

\* C3: with a release handler registered for the key's mode, a Key.update
\* invokes the release handler exactly when it is the first cycle that reads
\* not-pressed after a cycle that read pressed.
C3_ReleaseOnFirstNotPressed ==
    [][\A k \in ActiveKeys :
          KeyUpdateCall(k) /\ Registered(keypad.keys[k]).release
          => ( Count(KeyUpdate(keypad.keys[k], now).calls, "release") = 1
               <=> (keypad.keys[k].key_state = 1 /\ ~ReadsPressed(k)) )
      ]_vars

\* C4: with a hold handler registered for the key's mode on every cycle of a
\* press episode, the hold handler has been invoked once if some pressed cycle
\* of the episode came more than hold_time after its first, and not at all
\* otherwise.
C4_HoldOncePastThreshold ==
    \A k \in ActiveKeys :
        (hist[k].ep_start >= 0 /\ hist[k].ep_hreg)
        => hist[k].ep_hold = (IF hist[k].ep_over THEN 1 ELSE 0)

\* C5 as stated, on the runs in which no update of the key raised: when a
\* press episode begins less than debounce after the one before began, the
\* press handler is invoked at most once across the two.
C5_CloseEpisodesFireOnce ==
    \A k \in ActiveKeys :
        (hist[k].ep_close /\ ~hist[k].raised)
        => hist[k].prev_press + hist[k].ep_press <= 1

\* C5 amended: the press handler is never invoked on a cycle less than
\* debounce after the key's time_of_last_press, the last press transition the
\* key recorded; so of two episodes that begin less than debounce apart the
\* second gets no invocation while that lock lasts.
C5_NoPressWhileLocked ==
    \A k \in ActiveKeys : ~hist[k].in_lock

\* a second episode begun inside the lock of the first, pressed and not yet
\* given an invocation, after the first was given one
C5_Witness ==
    \E k \in ActiveKeys :
        /\ hist[k].ep_close
        /\ keypad.keys[k].key_state = 1
        /\ keypad.keys[k].key_locked
        /\ hist[k].prev_press = 1
        /\ hist[k].ep_press = 0

\* C6: Key.update never ends in an error because of a handler lookup.
C6_NoLookupError ==
    \A k \in ActiveKeys : ~hist[k].raised

\* C7: with sleep enabled, an update cycle that runs its sleep check with no
\* key pressed and more than led_sleep_time elapsed since time_of_last_press
\* ends Sleeping; and the cycle that moved the keypad to Sleeping left every
\* LED black and a snapshot that holds, for each key, the colour its LED
\* showed before the cycle (black for a key that was off).
C7_SleepSnapshot ==
    /\ ( /\ keypad.led_sleep_enabled
         /\ ~\E k \in Keys : ReadsPressed(k)
         /\ now - keypad.time_of_last_press > keypad.led_sleep_time )
       => \A result \in ReadBytes :
             PadUpdate(keypad, result, now).err = "ok"
             => PadUpdate(keypad, result, now).self.sleeping
    /\ slept.happened
       => /\ AllBlack(slept.after)
          /\ \A k \in Keys : slept.snapshot[k] = slept.before[k]

\* asleep after a cycle whose snapshot kept a lit key's colour and put black
\* for a key that was off but remembers a colour
C7_Witness ==
    /\ keypad.sleeping
    /\ slept.snapshot = keypad.last_led_states
    /\ slept.before[3] = Blue
    /\ slept.snapshot[3] = Blue
    /\ slept.snapshot[0] = Black
    /\ keypad.keys[0].rgb = Red

\* C8: when the keypad is Sleeping, at the end of an update cycle in which a
\* key is pressed every LED shows its entry of the snapshot.
C8_WakeRestoresSnapshot ==
    [][\A result \in ReadBytes :
          (Update(result) /\ keypad.sleeping /\ \E k \in Keys : ReadsPressed(k))
          => \A k \in Keys : keypad'.pixels[k] = keypad.last_led_states[k]
      ]_vars

\* C9: while the keypad is Sleeping and no key is pressed, a set_led or a
\* set_all of the keypad leaves all 16 LEDs off.
C9_DarkWhileAsleep ==
    [][( /\ keypad.sleeping
         /\ ~any_pressed(keypad)
         /\ \/ \E k \in ActiveKeys, c \in KeyPalette : SetLed(k, c)
            \/ \E c \in Palette : SetAll(c) )
       => AllBlack(keypad'.pixels)
      ]_vars

\* C10: at the end of an update cycle in which at least one key reads pressed
\* the keypad is not Sleeping.
C10_PressWakes ==
    [][\A result \in ReadBytes :
          (Update(result) /\ \E k \in Keys : ReadsPressed(k))
          => ~keypad'.sleeping
      ]_vars

\* C11: the snapshot is written only by a cycle that moves the keypad from
\* Awake to Sleeping, and is applied to the LEDs only by a cycle that moves it
\* from Sleeping to Awake; while the keypad sleeps the snapshot stays the one
\* taken when it fell asleep.
C11_SnapshotOnSleepRestoreOnWake ==
    /\ \A result \in ReadBytes :
          LET S == AfterKeys(keypad, result, now)
              P == PadUpdate(keypad, result, now)
          IN  S.err = "ok"
              => /\ SnapshotTaken(S.self, now)
                    => (~keypad.sleeping /\ P.self.sleeping)
                 /\ RestoreDone(S.self, now)
                    => (keypad.sleeping /\ ~P.self.sleeping)
                 /\ P.self.last_led_states # keypad.last_led_states
                    => SnapshotTaken(S.self, now)
    /\ keypad.was_asleep <=> keypad.sleeping
    /\ keypad.sleeping => keypad.last_led_states = slept.snapshot

\* awake again after a sleep, the lit key restored from the snapshot
C11_Witness ==
    /\ slept.happened
    /\ ~keypad.sleeping
    /\ ~keypad.was_asleep
    /\ keypad.last_led_states = slept.snapshot
    /\ slept.snapshot[3] = Blue
    /\ keypad.pixels[3] = Blue

\* C12: after every Key.update that returned, whatever hold_time and debounce
\* the application has set, the key is in exactly one of not-pressed,
\* pressed-and-not-held, held: held implies pressed.
C12_HeldImpliesPressed ==
    \A k \in ActiveKeys :
        (~hist[k].raised /\ keypad.keys[k].held) => keypad.keys[k].pressed = 1

\* C13: every handler lookup of a Key.update that returns, on a key whose
\* hold_time is not negative, is made under the mode (board_state) the key had
\* when that update began, also when a handler invoked earlier in the update
\* has changed the mode.
C13_LookupsUseModeAtStart ==
    \A k \in ActiveKeys :
        LET R == KeyUpdate(keypad.keys[k], now)
        IN  (R.err = "ok" /\ keypad.keys[k].hold_time >= 0)
            => \A i \in DOMAIN R.lookups :
                  R.lookups[i] = keypad.keys[k].board_state

\* C14: from every reachable LED state of a key, two toggle_led() calls in a
\* row with no colour argument give back the LED colour, the lit flag and the
\* remembered colour the key had.
C14_ToggleTwice ==
    \A k \in ActiveKeys :
        LET s2 == KeyToggleLed(KeyToggleLed(keypad, k, << >>), k, << >>)
        IN  /\ s2.pixels[k] = keypad.pixels[k]
            /\ s2.keys[k].lit = keypad.keys[k].lit
            /\ s2.keys[k].rgb = keypad.keys[k].rgb

\* a lit key that one toggle turns off and the next turns back on
C14_Witness ==
    /\ keypad.keys[3].lit
    /\ keypad.pixels[3] = Blue
    /\ ~KeyToggleLed(keypad, 3, << >>).keys[3].lit
    /\ KeyToggleLed(keypad, 3, << >>).pixels[3] = Black
    /\ KeyToggleLed(KeyToggleLed(keypad, 3, << >>), 3, << >>).pixels[3] = Blue

\* C15: Key.set_led(0, 0, 0) leaves lit false and the remembered colour as it
\* was; Key.set_led of a non-black triple leaves lit true and remembers the
\* triple, so that led_off then led_on, or two toggles, write that triple.
C15_SetLedRemembers ==
    \A k \in ActiveKeys, c \in KeyPalette :
        LET s == KeySetLed(keypad, k, c)
        IN  IF c = Black
            THEN ~s.keys[k].lit /\ s.keys[k].rgb = keypad.keys[k].rgb
            ELSE /\ s.keys[k].lit
                 /\ s.keys[k].rgb = c
                 /\ KeyLedOn(KeyLedOff(s, k), k).pixels[k] = c
                 /\ KeyToggleLed(KeyToggleLed(s, k, << >>), k, << >>).pixels[k] = c

\* a key set to blue and then to black: off, and blue is what led_on writes
C15_Witness ==
    /\ ~keypad.keys[3].lit
    /\ keypad.pixels[3] = Black
    /\ keypad.keys[3].rgb = Blue
    /\ KeySetLed(keypad, 3, Black) = keypad
    /\ KeyLedOn(keypad, 3).pixels[3] = Blue

\* C19: a key's lit flag is true exactly when the colour last written to its
\* LED is not black, and when lit is true the remembered colour is the colour
\* last written.
C19_LitMatchesLed ==
    \A k \in Keys :
        /\ keypad.keys[k].lit <=> keypad.pixels[k] # Black
        /\ keypad.keys[k].lit => keypad.keys[k].rgb = keypad.pixels[k]

\* asleep with a key that was lit: off, its colour remembered, while another
\* key is off and remembers the colour of a set_all
C19_Witness ==
    /\ keypad.sleeping
    /\ ~keypad.keys[3].lit
    /\ keypad.keys[3].rgb = Blue
    /\ keypad.keys[0].rgb = Red

\* C16: when the read of the key mask fails, RGBKeyPad.update raises to the
\* caller and leaves everything as it was: the keys' states, timers and fired
\* flags, the sleep state and the snapshot, every LED; no handler is invoked.
C16_FailedReadNoEffect ==
    /\ failed.intact
    /\ PadUpdate(keypad, ReadFailed, now) =
          [self |-> keypad, err |-> "OSError", calls |-> << >>]

\* a read has failed, and the keypad still sleeps with a key down whose
\* handler a completed cycle would have invoked
C16_Witness ==
    /\ failed.happened
    /\ failed.intact
    /\ keypad.sleeping
    /\ ReadsPressed(3)
    /\ keypad.keys[3].key_state = 0
    /\ Registered(keypad.keys[3]).press

\* C17 as stated: when the first update of a freshly constructed key reads
\* released and the next two, each less than debounce after the one before,
\* read pressed, with a press handler registered, the press handler is invoked
\* once on the first pressed cycle and not on the second.
C17_FirstPressFiresOnce ==
    \A k \in ActiveKeys :
        (hist[k].first.cycles \in {2, 3} /\ hist[k].first.reg)
        => (hist[k].first.press1 = 1 /\ hist[k].first.press2 = 0)

\* C17 amended: in that scenario the press handler is invoked on the first
\* pressed cycle, once, exactly when that cycle comes debounce or more after
\* the key was constructed, and is not invoked on the second pressed cycle in
\* either case.
C17_FirstPressFiresOnceUnlocked ==
    \A k \in ActiveKeys :
        (hist[k].first.cycles \in {2, 3} /\ hist[k].first.reg)
        => /\ hist[k].first.press1 = (IF hist[k].first.late THEN 1 ELSE 0)
           /\ hist[k].first.press2 = 0

\* the three cycles made debounce or more after construction: one invocation,
\* on the first pressed cycle
C17_Witness ==
    \E k \in ActiveKeys :
        /\ hist[k].first.cycles = 3
        /\ hist[k].first.reg
        /\ hist[k].first.late
        /\ hist[k].first.press1 = 1
        /\ hist[k].first.press2 = 0
        /\ keypad.keys[k].press_func_fired

\* C18: hsv_to_rgb with s = 0 returns a grey in every hue sector: the three
\* channels are equal, each is floor(255 * v), and lies in 0 .. 255.
C18_GreyWhenUnsaturated ==
    (hsv.rgb # << >> /\ hsv.s = 0)
    => /\ hsv.rgb[1] = (255 * hsv.v) \div HsvSteps
       /\ hsv.rgb[2] = hsv.rgb[1]
       /\ hsv.rgb[3] = hsv.rgb[1]
       /\ hsv.rgb[1] \in 0 .. 255

\* a grey of half value converted inside a sector that uses q
C18_Witness ==
    /\ hsv.rgb # << >>
    /\ hsv.s = 0
    /\ HsvI(hsv.h) = 3
    /\ HsvF(hsv.h) > 0
    /\ 2 * hsv.v = HsvSteps
    /\ hsv.rgb = <<127, 127, 127>>

\* C20: the cycle that wakes the keypad leaves every key that the application
\* drove with nothing but set_all and clear_all with the lit flag and the
\* remembered colour it had when the keypad fell asleep, also a key that was
\* off then.
C20_FrameOverSleep ==
    frame.woke => frame.kept

\* woken with a key that is off and still remembers the colour of a set_all
C20_Witness ==
    /\ frame.woke
    /\ frame.kept
    /\ ~keypad.sleeping
    /\ ~keypad.keys[0].lit
    /\ keypad.keys[0].rgb = Red
    /\ keypad.last_led_states[0] = Black

====
